---- MODULE Spec2Model ----
(***************************************************************************)
(* Model of the contact manager: the fields (Name, Phone, Birthday), the   *)
(* Record, the AddressBook (src/base.py) and the 'add' command of the      *)
(* command layer (src/bot.py).                                             *)
(*                                                                         *)
(* Strings that the code inspects character by character (phone numbers,   *)
(* birthday texts) are sequences of one-character strings.  A Python       *)
(* object with name-mangled private attributes is a record with one field  *)
(* per attribute: Phone has _Phone__value (written by the 'value' setter)  *)
(* and _Field__value (written by Field.__init__, read by Field.__str__).   *)
(***************************************************************************)
EXTENDS Integers, Sequences, FiniteSets, TLC

VARIABLES s, phone, rec, contacts, call, outcome

vars == <<s, phone, rec, contacts, call, outcome>>

(***************************************************************************)
(* Bounds of the model                                                     *)
(***************************************************************************)
MaxStrLen == 11

MaxPhones == 2

MaxRecords == 3

MaxChunk == 3

(***************************************************************************)
(* Characters                                                              *)
(***************************************************************************)
AsciiDigits == {"0", "1", "2", "3", "4", "5", "6", "7", "8", "9"}

\* A decimal digit outside ASCII (ARABIC-INDIC DIGIT THREE); Python's \d
\* on a str pattern matches every character of Unicode category Nd.
UnicodeDigits == {"U+0663"}

IsReDigit(c) == c \in AsciiDigits \cup UnicodeDigits

\* Python's None where an object (Phone, Record, date) may stand.
None == [none |-> TRUE]

\* Python's None where a text may stand (an omitted birthday argument).
NoneStr == <<"None">>

\* The last call made: its name and its arguments by name.
NoCall == [op |-> "none", args |-> [none |-> TRUE]]

\* What a call did: the exception it raised ("None" for none) and the value
\* it returned, always a record (a text or a number is wrapped in one).
Returned(v) == [exc |-> "None", ret |-> v]

Raised(e) == [exc |-> e, ret |-> None]

\* re.search('\d+', phone): the leftmost, longest run of \d characters;
\* "" when there is no match.
ReSearchDigits(str) ==
    LET starts == {i \in 1..Len(str) : IsReDigit(str[i])}
    IN  IF starts = {} THEN <<>>
        ELSE LET b == CHOOSE i \in starts : \A j \in starts : i <= j
                 e == CHOOSE i \in b..Len(str) :
                        /\ \A k \in b..i : IsReDigit(str[k])
                        /\ (i = Len(str) \/ ~IsReDigit(str[i + 1]))
             IN  SubSeq(str, b, e)

PhoneLen == 10

\* The condition under which the Phone.value setter stores its argument.
PhoneAccepts(str) ==
    LET numbers == ReSearchDigits(str)
        phone_number_len == Len(str)
    IN  ~(phone_number_len # PhoneLen \/ Len(numbers) # phone_number_len)

\* Phone.value setter applied to the Phone object p: the new object, or the
\* exception raised.
PhoneSetValue(p, str) ==
    IF PhoneAccepts(str)
    THEN Returned([p EXCEPT !.Phone__value = str])
    ELSE Raised("ValueError")

\* Phone(phone): the setter, then Field.__init__(value=self.value).
PhoneInit(str) ==
    IF PhoneAccepts(str)
    THEN Returned([Phone__value |-> str, Field__value |-> str])
    ELSE Raised("ValueError")

\* Field.__str__ of a Phone.
PhoneStr(p) == p.Field__value

(***************************************************************************)
(* Phone on its own: a caller types a string s and either constructs a     *)
(* Phone from it or assigns it to the 'value' of a Phone it already holds. *)
(***************************************************************************)
Alphabet == {"7", "U+0663", "+"}

HeldNumber == <<"0", "0", "0", "0", "0", "0", "0", "0", "0", "0">>

InitPhone ==
    /\ s = <<>>
    /\ phone = PhoneInit(HeldNumber).ret
    /\ rec = None
    /\ contacts = <<>>
    /\ call = NoCall
    /\ outcome = Returned(None)

TypeChar(c) ==
    /\ call = NoCall
    /\ Len(s) < MaxStrLen
    /\ s' = Append(s, c)
    /\ UNCHANGED <<phone, rec, contacts, call, outcome>>

\* phone = Phone(s)
NewPhone ==
    /\ call = NoCall
    /\ LET r == PhoneInit(s)
       IN  /\ phone' = IF r.exc = "None" THEN r.ret ELSE phone
           /\ outcome' = IF r.exc = "None" THEN Returned(None) ELSE r
    /\ call' = [op |-> "Phone", args |-> [phone |-> s]]
    /\ UNCHANGED <<s, rec, contacts>>

\* phone.value = s
AssignPhone ==
    /\ call = NoCall
    /\ LET r == PhoneSetValue(phone, s)
       IN  /\ phone' = IF r.exc = "None" THEN r.ret ELSE phone
           /\ outcome' = IF r.exc = "None" THEN Returned(None) ELSE r
    /\ call' = [op |-> "Phone.value", args |-> [phone |-> s]]
    /\ UNCHANGED <<s, rec, contacts>>

NextPhone ==
    \/ \E c \in Alphabet : TypeChar(c)
    \/ NewPhone
    \/ AssignPhone

SpecPhone == InitPhone /\ [][NextPhone]_vars

\* C8: constructing a Phone from s, or assigning s to a Phone, succeeds if
\* and only if s has exactly 10 characters, all of them ASCII decimal
\* digits; on success the stored and the rendered value equal s, otherwise
\* a validation error is raised and s is not stored.
C8_PhoneAcceptsExactlyTenAsciiDigits ==
    call.op \in {"Phone", "Phone.value"} =>
        LET str == call.args.phone
            wellFormed == /\ Len(str) = 10
                          /\ \A i \in 1..Len(str) : str[i] \in AsciiDigits
        IN  IF wellFormed
            THEN /\ outcome.exc = "None"
                 /\ phone.Phone__value = str
                 /\ PhoneStr(phone) = str
            ELSE /\ outcome.exc = "ValueError"
                 /\ phone.Phone__value # str

(***************************************************************************)
(* Birthday                                                                *)
(***************************************************************************)
DigitChars == <<"0", "1", "2", "3", "4", "5", "6", "7", "8", "9">>

\* int() of one character that \d matches.
DigitVal(c) ==
    IF c = "U+0663" THEN 3
    ELSE (CHOOSE i \in 1..10 : DigitChars[i] = c) - 1

RECURSIVE IntOf(_)
IntOf(str) ==
    IF str = <<>> THEN 0
    ELSE 10 * IntOf(SubSeq(str, 1, Len(str) - 1)) + DigitVal(str[Len(str)])

IsLeap(year) == year % 4 = 0 /\ (year % 100 # 0 \/ year % 400 = 0)

DaysInMonth(year, month) ==
    IF month = 2 THEN (IF IsLeap(year) THEN 29 ELSE 28)
    ELSE IF month \in {4, 6, 9, 11} THEN 30 ELSE 31

\* The text a %d directive matches: 3[0-1] | [1-2]\d | 0[1-9] | [1-9] | ' '[1-9]
MatchesDay(str) ==
    \/ Len(str) = 2 /\ str[1] = "3" /\ str[2] \in {"0", "1"}
    \/ Len(str) = 2 /\ str[1] \in {"1", "2"} /\ IsReDigit(str[2])
    \/ Len(str) = 2 /\ str[1] \in {"0", " "} /\ str[2] \in AsciiDigits \ {"0"}
    \/ Len(str) = 1 /\ str[1] \in AsciiDigits \ {"0"}

\* The text a %m directive matches: 1[0-2] | 0[1-9] | [1-9]
MatchesMonth(str) ==
    \/ Len(str) = 2 /\ str[1] = "1" /\ str[2] \in {"0", "1", "2"}
    \/ Len(str) = 2 /\ str[1] = "0" /\ str[2] \in AsciiDigits \ {"0"}
    \/ Len(str) = 1 /\ str[1] \in AsciiDigits \ {"0"}

\* The text a %Y directive matches: \d\d\d\d
MatchesYear(str) == Len(str) = 4 /\ \A i \in 1..4 : IsReDigit(str[i])

\* datetime.strptime(birthday, "%d-%m-%Y").date(): the date, or None where
\* strptime raises (the text does not match the format, or the day does
\* not exist in that month and year, or the year is below datetime.MINYEAR).
Strptime(str) ==
    LET dashes == {i \in 1..Len(str) : str[i] = "-"}
    IN  IF Cardinality(dashes) # 2 THEN None
        ELSE LET d1 == CHOOSE i \in dashes : \A j \in dashes : i <= j
                 d2 == CHOOSE i \in dashes : i # d1
                 dd == SubSeq(str, 1, d1 - 1)
                 mm == SubSeq(str, d1 + 1, d2 - 1)
                 yy == SubSeq(str, d2 + 1, Len(str))
                 Digits(x) == SelectSeq(x, LAMBDA c : c # " ")
             IN  IF ~(MatchesDay(dd) /\ MatchesMonth(mm) /\ MatchesYear(yy))
                 THEN None
                 ELSE LET day == IntOf(Digits(dd))
                          month == IntOf(mm)
                          year == IntOf(yy)
                      IN  IF year < 1 \/ day > DaysInMonth(year, month)
                          THEN None
                          ELSE [year |-> year, month |-> month, day |-> day]

\* Birthday(birthday): the 'value' setter, then Field.__init__.
BirthdayInit(birthday) ==
    IF birthday = NoneStr
    THEN Returned([Birthday__value |-> None, Field__value |-> None])
    ELSE LET birthday_dt == Strptime(birthday)
         IN  IF birthday_dt = None
             THEN Raised("ValueError")
             ELSE Returned([Birthday__value |-> birthday_dt,
                            Field__value |-> birthday_dt])

\* Name(client_name)
NameInit(client_name) ==
    [Name__value |-> client_name, Field__value |-> client_name]

(***************************************************************************)
(* Record.  A method is an operator from the record (and the arguments)    *)
(* to [self |-> the record afterwards, out |-> what the call returned or   *)
(* raised].                                                                *)
(***************************************************************************)
\* Record(name, birthday)
RecordInit(name, birthday) ==
    LET b == BirthdayInit(birthday)
    IN  IF b.exc # "None" THEN Raised(b.exc)
        ELSE Returned([name |-> NameInit(name), phones |-> <<>>,
                       birthday |-> b.ret])

\* Record.get_phone_by_number: the first phone whose value is phone_num and
\* its index (1-based here), or (None, None).
get_phone_by_number(self, phone_num) ==
    LET hits == {i \in 1..Len(self.phones) :
                    self.phones[i].Phone__value = phone_num}
    IN  IF hits = {} THEN [phone |-> None, idx |-> None]
        ELSE LET idx == CHOOSE i \in hits : \A j \in hits : i <= j
             IN  [phone |-> self.phones[idx], idx |-> idx]

\* Record.find_phone
find_phone(self, phone_num) == get_phone_by_number(self, phone_num).phone

\* Record.add_phone
add_phone(self, phone_num) ==
    LET p == PhoneInit(phone_num)
    IN  IF p.exc # "None" THEN [self |-> self, out |-> Raised(p.exc)]
        ELSE [self |-> [self EXCEPT !.phones = Append(@, p.ret)],
              out |-> Returned([text |-> "added"])]

\* edit_phone that stores the new number before it is validated.
edit_phone_StoresBeforeValidating(self, old_phone, new_phone) ==
    LET found == get_phone_by_number(self, old_phone)
    IN  IF found.phone # None
        THEN LET set == PhoneSetValue(self.phones[found.idx], new_phone)
                 stored == [self EXCEPT
                              !.phones[found.idx].Phone__value = new_phone]
             IN  [self |-> stored, out |-> set]
        ELSE [self |-> self, out |-> Raised("ValueError")]

\* edit_phone that appends the new number and leaves the old one.
edit_phone_AppendsNew(self, old_phone, new_phone) ==
    LET found == get_phone_by_number(self, old_phone)
        made == PhoneInit(new_phone)
    IN  IF found.phone # None
        THEN IF made.exc # "None"
             THEN [self |-> self, out |-> Raised(made.exc)]
             ELSE [self |-> [self EXCEPT !.phones = Append(@, made.ret)],
                   out |-> Returned(None)]
        ELSE [self |-> self, out |-> Raised("ValueError")]

\* Record.edit_phone
edit_phone(self, old_phone, new_phone) ==
    LET found == get_phone_by_number(self, old_phone)
    IN  IF found.phone # None
        THEN LET set == PhoneSetValue(self.phones[found.idx], new_phone)
             IN  IF set.exc # "None"
                 THEN [self |-> self, out |-> Raised(set.exc)]
                 ELSE [self |-> [self EXCEPT !.phones[found.idx] = set.ret],
                       out |-> Returned(None)]
        ELSE [self |-> self, out |-> Raised("ValueError")]

RemoveAt(seq, i) == SubSeq(seq, 1, i - 1) \o SubSeq(seq, i + 1, Len(seq))

\* Record.remove_phone: idx is None exactly when no phone was found, and
\* list.pop(None) raises TypeError.
remove_phone(self, phone_num) ==
    LET found == get_phone_by_number(self, phone_num)
    IN  IF found.phone = None
        THEN [self |-> self, out |-> Raised("TypeError")]
        ELSE [self |-> [self EXCEPT !.phones = RemoveAt(@, found.idx)],
              out |-> Returned(None)]

\* Record.add_birthday
add_birthday(self, birthday) ==
    LET b == BirthdayInit(birthday)
    IN  IF b.exc # "None" THEN [self |-> self, out |-> Raised(b.exc)]
        ELSE [self |-> [self EXCEPT !.birthday = b.ret],
              out |-> Returned([text |-> "added"])]

(***************************************************************************)
(* Inputs                                                                  *)
(***************************************************************************)
Phone1 == <<"0", "0", "0", "0", "0", "0", "0", "0", "0", "1">>

Phone2 == <<"0", "0", "0", "0", "0", "0", "0", "0", "0", "2">>

\* nine digits
PhoneShort == <<"0", "0", "0", "0", "0", "0", "0", "0", "1">>

\* ten characters with a leading '+'
PhonePlus == <<"+", "0", "0", "0", "0", "0", "0", "0", "0", "1">>

PhoneInputs == {Phone1, Phone2, PhoneShort, PhonePlus}

\* 15-03-1990
Birthday1 == <<"1", "5", "-", "0", "3", "-", "1", "9", "9", "0">>

\* 29-02-2000
Birthday2 == <<"2", "9", "-", "0", "2", "-", "2", "0", "0", "0">>

\* 31-02-2021, no such day
BirthdayNoSuchDay == <<"3", "1", "-", "0", "2", "-", "2", "0", "2", "1">>

\* 1990-03-15, not DD-MM-YYYY
BirthdayMalformed == <<"1", "9", "9", "0", "-", "0", "3", "-", "1", "5">>

BirthdayTexts == {Birthday1, Birthday2, BirthdayNoSuchDay, BirthdayMalformed}

(***************************************************************************)
(* One Record and the calls of its methods                                 *)
(***************************************************************************)
InitRecord ==
    /\ s = <<>>
    /\ phone = None
    /\ \E b \in BirthdayTexts \cup {NoneStr} :
          /\ RecordInit("A", b).exc = "None"
          /\ rec = RecordInit("A", b).ret
    /\ contacts = <<>>
    /\ call = NoCall
    /\ outcome = Returned(None)

AddPhone(phone_num) ==
    /\ Len(rec.phones) < MaxPhones
    /\ LET r == add_phone(rec, phone_num)
       IN  rec' = r.self /\ outcome' = r.out
    /\ call' = [op |-> "add_phone", args |-> [phone_num |-> phone_num]]
    /\ UNCHANGED <<s, phone, contacts>>

EditPhone(old_phone, new_phone) ==
    /\ LET r == edit_phone(rec, old_phone, new_phone)
       IN  rec' = r.self /\ outcome' = r.out
    /\ call' = [op |-> "edit_phone",
                args |-> [old_phone |-> old_phone, new_phone |-> new_phone]]
    /\ UNCHANGED <<s, phone, contacts>>

RemovePhone(phone_num) ==
    /\ LET r == remove_phone(rec, phone_num)
       IN  rec' = r.self /\ outcome' = r.out
    /\ call' = [op |-> "remove_phone", args |-> [phone_num |-> phone_num]]
    /\ UNCHANGED <<s, phone, contacts>>

FindPhone(phone_num) ==
    /\ outcome' = Returned(find_phone(rec, phone_num))
    /\ call' = [op |-> "find_phone", args |-> [phone_num |-> phone_num]]
    /\ UNCHANGED <<s, phone, rec, contacts>>

AddBirthday(birthday) ==
    /\ LET r == add_birthday(rec, birthday)
       IN  rec' = r.self /\ outcome' = r.out
    /\ call' = [op |-> "add_birthday", args |-> [birthday |-> birthday]]
    /\ UNCHANGED <<s, phone, contacts>>

NextRecord ==
    \/ \E n \in PhoneInputs : AddPhone(n)
    \/ \E o \in PhoneInputs, n \in PhoneInputs : EditPhone(o, n)
    \/ \E n \in PhoneInputs : RemovePhone(n)
    \/ \E n \in PhoneInputs : FindPhone(n)
    \/ \E b \in BirthdayTexts \cup {NoneStr} : AddBirthday(b)

SpecRecord == InitRecord /\ [][NextRecord]_vars

\* C3: when add_phone, edit_phone or add_birthday fails, the record's
\* phones (values and order) and its birthday are what they were before
\* the call.
C3_FailedMutationLeavesRecordUnchanged ==
    [][(call'.op \in {"add_phone", "edit_phone", "add_birthday"}
            /\ outcome'.exc # "None")
        => (rec'.phones = rec.phones /\ rec'.birthday = rec.birthday)]_vars

\* An edit_phone whose old number is stored has failed on the new number.
C3_Witness ==
    /\ call.op = "edit_phone"
    /\ outcome.exc = "ValueError"
    /\ find_phone(rec, call.args.old_phone) # None
    /\ ~PhoneAccepts(call.args.new_phone)

\* C4 as stated: after a successful edit_phone(old, new), find_phone(new)
\* returns a Phone of value new and find_phone(old) returns absent.
C4_EditThenFind ==
    (call.op = "edit_phone" /\ outcome.exc = "None") =>
        /\ find_phone(rec, call.args.new_phone) # None
        /\ find_phone(rec, call.args.new_phone).Phone__value
             = call.args.new_phone
        /\ find_phone(rec, call.args.old_phone) = None

Occurrences(self, phone_num) ==
    Cardinality({i \in 1..Len(self.phones) :
                    self.phones[i].Phone__value = phone_num})

\* C4 amended: after a successful edit_phone(old, new), find_phone(new)
\* returns a Phone of value new, and find_phone(old) returns absent exactly
\* when old differs from new and the record held old once before the call.
C4_EditThenFindAmended ==
    [][(call'.op = "edit_phone" /\ outcome'.exc = "None") =>
        LET old == call'.args.old_phone
            new == call'.args.new_phone
        IN  /\ find_phone(rec', new) # None
            /\ find_phone(rec', new).Phone__value = new
            /\ (find_phone(rec', old) = None)
                 <=> (old # new /\ Occurrences(rec, old) = 1)]_vars

\* A successful edit to a different number, after which old is absent.
C4_Witness ==
    /\ call.op = "edit_phone"
    /\ outcome.exc = "None"
    /\ call.args.old_phone # call.args.new_phone
    /\ find_phone(rec, call.args.new_phone) # None
    /\ find_phone(rec, call.args.old_phone) = None

\* C5: remove_phone of a number the record does not hold completes without
\* a failure and leaves the phones unchanged; of a number it holds, removes
\* the first match and keeps the order of the others.
C5_RemovePhoneAbsentIsNoOp ==
    [][call'.op = "remove_phone" =>
        LET hit == get_phone_by_number(rec, call'.args.phone_num)
        IN  IF hit.phone = None
            THEN outcome'.exc = "None" /\ rec'.phones = rec.phones
            ELSE /\ outcome'.exc = "None"
                 /\ rec'.phones = RemoveAt(rec.phones, hit.idx)]_vars

\* C7: every Phone a Record holds renders (str) as the value stored in it.
C7_PhoneRendersStoredValue ==
    \A i \in 1..Len(rec.phones) :
        PhoneStr(rec.phones[i]) = rec.phones[i].Phone__value

(***************************************************************************)
(* AddressBook.  self.data is an insertion-ordered dict: a sequence of     *)
(* [key, value] entries with distinct keys, a new key going to the end.    *)
(***************************************************************************)
Keys(data) == {data[i].key : i \in 1..Len(data)}

Values(data) == [i \in 1..Len(data) |-> data[i].value]

\* dict.get(name)
Get(data, name) ==
    IF name \in Keys(data)
    THEN (CHOOSE e \in {data[i] : i \in 1..Len(data)} : e.key = name).value
    ELSE None

\* self.data[name] = record for a key the dict holds: the entry keeps its
\* place.
Put(data, name, record) ==
    [i \in 1..Len(data) |->
        IF data[i].key = name THEN [data[i] EXCEPT !.value = record]
        ELSE data[i]]

\* add_record without the membership test: a duplicate overwrites.
add_record_Overwrites(data, record) ==
    IF record.name.Name__value \notin Keys(data)
    THEN [self |-> Append(data, [key |-> record.name.Name__value,
                                 value |-> record]),
          out |-> Returned(None)]
    ELSE [self |-> Put(data, record.name.Name__value, record),
          out |-> Returned(None)]

\* AddressBook.add_record
add_record(data, record) ==
    IF record.name.Name__value \notin Keys(data)
    THEN [self |-> Append(data, [key |-> record.name.Name__value,
                                 value |-> record]),
          out |-> Returned(None)]
    ELSE [self |-> data, out |-> Raised("RecordAlreadyExistsException")]

\* AddressBook.find
find(data, name) == Get(data, name)

\* delete without the presence test: dict.pop of an absent key raises.
delete_PopsUnconditionally(data, name) ==
    IF name \in Keys(data)
    THEN [self |-> SelectSeq(data, LAMBDA e : e.key # name),
          out |-> Returned(None)]
    ELSE [self |-> data, out |-> Raised("KeyError")]

\* AddressBook.delete; a Record is always truthy.
delete(data, name) ==
    IF Get(data, name) # None
    THEN [self |-> SelectSeq(data, LAMBDA e : e.key # name),
          out |-> Returned(None)]
    ELSE [self |-> data, out |-> Returned(None)]

MinOf(a, b) == IF a < b THEN a ELSE b

\* iterator that stops before a last, shorter slice.
iterator_DropsShortSlice(data, record_num) ==
    LET book_vals == Values(data)
        step == IF record_num = <<>> \/ record_num[1] = 0
                THEN 1 ELSE record_num[1]
        count == IF step > 0 THEN Len(book_vals) \div step ELSE 0
    IN  [k \in 1..count |->
            SubSeq(book_vals, (k - 1) * step + 1, k * step)]

\* AddressBook.iterator, run to exhaustion: the list of the slices it
\* yields.  record_num is <<>> for None and <<n>> for the integer n.
iterator(data, record_num) ==
    LET book_vals == Values(data)
        step == IF record_num = <<>> \/ record_num[1] = 0
                THEN 1 ELSE record_num[1]
        \* range(0, len(book_vals), step)
        count == IF step > 0 THEN (Len(book_vals) + step - 1) \div step
                 ELSE 0
    IN  [k \in 1..count |->
            SubSeq(book_vals, (k - 1) * step + 1,
                   MinOf(k * step, Len(book_vals)))]

Names == {"A", "B", "C", "D"}

RecordArgs == {NoneStr, Birthday1}

ChunkArgs == {<<>>} \cup {<<n>> : n \in 0..MaxChunk}

Init ==
    /\ s = <<>>
    /\ phone = None
    /\ rec = None
    /\ contacts = <<>>
    /\ call = NoCall
    /\ outcome = Returned(None)

\* contacts.add_record(Record(name, birthday))
AddRecord(name, birthday) ==
    /\ Len(contacts) < MaxRecords \/ name \in Keys(contacts)
    /\ LET record == RecordInit(name, birthday).ret
           r == add_record(contacts, record)
       IN  /\ contacts' = r.self
           /\ outcome' = r.out
           /\ call' = [op |-> "add_record", args |-> [record |-> record]]
    /\ UNCHANGED <<s, phone, rec>>

Delete(name) ==
    /\ LET r == delete(contacts, name)
       IN  contacts' = r.self /\ outcome' = r.out
    /\ call' = [op |-> "delete", args |-> [name |-> name]]
    /\ UNCHANGED <<s, phone, rec>>

Find(name) ==
    /\ outcome' = Returned(find(contacts, name))
    /\ call' = [op |-> "find", args |-> [name |-> name]]
    /\ UNCHANGED <<s, phone, rec, contacts>>

Iterator(record_num) ==
    /\ outcome' = Returned([slices |-> iterator(contacts, record_num)])
    /\ call' = [op |-> "iterator", args |-> [record_num |-> record_num]]
    /\ UNCHANGED <<s, phone, rec, contacts>>

Next ==
    \/ \E name \in Names, b \in RecordArgs : AddRecord(name, b)
    \/ \E name \in Names : Delete(name)
    \/ \E name \in Names : Find(name)
    \/ \E n \in ChunkArgs : Iterator(n)

Spec == Init /\ [][Next]_vars

\* C1: add of a record whose name is already a key fails with the
\* already-exists error and leaves the collection unchanged (same keys, the
\* key still maps to the Record stored first); add of a record whose name
\* is not a key succeeds and inserts exactly that entry.
C1_AddRejectsDuplicateKey ==
    [][call'.op = "add_record" =>
        LET record == call'.args.record
            name == record.name.Name__value
        IN  IF name \in Keys(contacts)
            THEN /\ outcome'.exc = "RecordAlreadyExistsException"
                 /\ Keys(contacts') = Keys(contacts)
                 /\ \A k \in Keys(contacts) :
                        Get(contacts', k) = Get(contacts, k)
                 /\ Len(contacts') = Len(contacts)
            ELSE /\ outcome'.exc = "None"
                 /\ Keys(contacts') = Keys(contacts) \cup {name}
                 /\ Get(contacts', name) = record
                 /\ \A k \in Keys(contacts) :
                        Get(contacts', k) = Get(contacts, k)
                 /\ Len(contacts') = Len(contacts) + 1]_vars

\* A record was rejected whose content differs from the one stored under
\* its name.
C1_Witness ==
    /\ call.op = "add_record"
    /\ outcome.exc = "RecordAlreadyExistsException"
    /\ Get(contacts, call.args.record.name.Name__value) # None
    /\ Get(contacts, call.args.record.name.Name__value) # call.args.record

RECURSIVE Concat(_)
Concat(seqs) ==
    IF seqs = <<>> THEN <<>> ELSE Head(seqs) \o Concat(Tail(seqs))

\* C2: iterate(chunk_size) yields consecutive slices whose concatenation is
\* the collection's Records in insertion order; every slice but the last
\* holds chunk_size records, the last between 1 and chunk_size, none is
\* empty; a chunk_size of zero or unset behaves as chunk_size 1.
C2_IterateYieldsConsecutiveChunks ==
    call.op = "iterator" =>
        LET arg == call.args.record_num
            chunk_size == IF arg = <<>> THEN 1
                          ELSE IF arg[1] = 0 THEN 1 ELSE arg[1]
            slices == outcome.ret.slices
        IN  /\ Concat(slices) = Values(contacts)
            /\ \A k \in 1..Len(slices) :
                  /\ Len(slices[k]) >= 1
                  /\ Len(slices[k]) <= chunk_size
                  /\ k < Len(slices) => Len(slices[k]) = chunk_size

\* Three records in chunks of two: a full slice, then a shorter last one.
C2_Witness ==
    /\ call.op = "iterator"
    /\ call.args.record_num = <<2>>
    /\ Len(contacts) = 3
    /\ Len(outcome.ret.slices) = 2
    /\ Len(outcome.ret.slices[2]) = 1

\* C9: delete(name) never fails; afterwards name is not a key and every
\* other entry is unchanged, in its place; delete of an absent key (so also
\* a second delete of the same name) leaves the collection as it was.
C9_DeleteIsIdempotent ==
    [][call'.op = "delete" =>
        LET name == call'.args.name
        IN  /\ outcome'.exc = "None"
            /\ Keys(contacts') = Keys(contacts) \ {name}
            /\ \A k \in Keys(contacts') :
                  Get(contacts', k) = Get(contacts, k)
            /\ Values(contacts')
                 = Values(SelectSeq(contacts, LAMBDA e : e.key # name))
            /\ name \notin Keys(contacts) => contacts' = contacts]_vars

\* A delete has completed on a collection that keeps other entries.
C9_Witness ==
    /\ call.op = "delete"
    /\ outcome.exc = "None"
    /\ call.args.name \notin Keys(contacts)
    /\ Len(contacts) >= 1

(***************************************************************************)
(* Record.days_to_birthday.  'today' is the reading of the caller's clock: *)
(* a date and the seconds elapsed since midnight.                          *)
(***************************************************************************)
SecondsPerDay == 86400

DaysBeforeMonth(year, month) ==
    <<0, 31, 59, 90, 120, 151, 181, 212, 243, 273, 304, 334>>[month]
        + (IF month > 2 /\ IsLeap(year) THEN 1 ELSE 0)

\* date.toordinal(): 1 for 0001-01-01.
Ordinal(year, month, day) ==
    LET y == year - 1
    IN  365 * y + (y \div 4) - (y \div 100) + (y \div 400)
            + DaysBeforeMonth(year, month) + day

days_to_birthday(self, today) ==
    IF self.birthday.Birthday__value # None
    THEN LET today_day == today.day
             today_month == today.month
             today_year == today.year
             birth_day == self.birthday.Birthday__value.day
             birth_month == self.birthday.Birthday__value.month
             next_birthday_year ==
                 IF today_month > birth_month
                        \/ (today_month = birth_month /\ today_day > birth_day)
                 THEN today_year + 1
                 ELSE today_year
         IN  \* datetime(year, month, day) raises ValueError for a day the
             \* month does not have
             IF birth_day > DaysInMonth(next_birthday_year, birth_month)
             THEN [self |-> self, out |-> Raised("ValueError")]
             ELSE LET \* time_diff in seconds: midnight of the next birthday
                      \* minus the clock reading
                      time_diff ==
                          (Ordinal(next_birthday_year, birth_month, birth_day)
                             - Ordinal(today_year, today_month, today_day))
                            * SecondsPerDay - today.second
                      \* timedelta.days: the floor of the difference in days
                      days_to_next_birthday == time_diff \div SecondsPerDay
                  IN  [self |-> self,
                       out |-> Returned([days |-> days_to_next_birthday])]
    ELSE [self |-> self, out |-> Raised("ValueError")]

FirstYear == 2024

LastYear == 2025

\* midnight and noon
TimesOfDay == {0, 43200}

MonthsRead == {1, 2, 3, 12}

ClockReadings ==
    {[year |-> y, month |-> m, day |-> d, second |-> t] :
        y \in FirstYear..LastYear, m \in MonthsRead, d \in 1..31,
        t \in TimesOfDay}

DaysToBirthday(today) ==
    /\ today.day <= DaysInMonth(today.year, today.month)
    /\ LET r == days_to_birthday(rec, today)
       IN  rec' = r.self /\ outcome' = r.out
    /\ call' = [op |-> "days_to_birthday", args |-> [today |-> today]]
    /\ UNCHANGED <<s, phone, contacts>>

NextBirthday ==
    \/ \E b \in BirthdayTexts \cup {NoneStr} : AddBirthday(b)
    \/ \E today \in ClockReadings : DaysToBirthday(today)

SpecBirthday == InitRecord /\ [][NextBirthday]_vars

\* C6: with a birthday set, days_to_birthday() returns the number of whole
\* days from today's date to the next occurrence of the birth (month, day):
\* in the current year if and only if today's (month, day) is strictly
\* earlier than the birth (month, day), otherwise (today being the birthday
\* included) in the following year; whatever the time of day.  (Stated for
\* the readings whose next occurrence is a day of the calendar.)
C6_DaysToNextBirthday ==
    (call.op = "days_to_birthday" /\ rec.birthday.Birthday__value # None) =>
        LET today == call.args.today
            birth == rec.birthday.Birthday__value
            earlier == \/ today.month < birth.month
                       \/ (today.month = birth.month /\ today.day < birth.day)
            year == IF earlier THEN today.year ELSE today.year + 1
        IN  birth.day <= DaysInMonth(year, birth.month) =>
               /\ outcome.exc = "None"
               /\ outcome.ret.days = Ordinal(year, birth.month, birth.day)
                                  - Ordinal(today.year, today.month, today.day)

(***************************************************************************)
(* The command layer's 'add' (bot.add_contact) on the global AddressBook.  *)
(* args is <<name, phone>> or <<name, phone, birthday>>.  A ValueError is   *)
(* caught by the input_error wrapper; RecordAlreadyExistsException is not. *)
(***************************************************************************)
\* Lines 72-76 of add_contact: a new Record, its phone, add_record.
add_new_contact(data, name, phone_num, birthday) ==
    LET made == RecordInit(name, birthday)
    IN  IF made.exc # "None" THEN [self |-> data, out |-> Raised(made.exc)]
        ELSE LET withPhone == add_phone(made.ret, phone_num)
             IN  IF withPhone.out.exc # "None"
                 THEN [self |-> data, out |-> withPhone.out]
                 ELSE add_record(data, withPhone.self)

add_contact(data, args) ==
    LET name == args[1]
        phone_num == args[2]
        birthday == IF Len(args) > 2 THEN args[3] ELSE NoneStr
        found == find(data, name)
    IN  IF found # None
           /\ get_phone_by_number(found, phone_num).phone = None
        THEN LET withBirthday == add_birthday(found, birthday)
             IN  IF withBirthday.out.exc # "None"
                 THEN [self |-> data, out |-> withBirthday.out]
                 ELSE LET withPhone == add_phone(withBirthday.self, phone_num)
                      IN  [self |-> Put(data, name, withPhone.self),
                           out |-> withPhone.out]
        ELSE add_new_contact(data, name, phone_num, birthday)

BotNames == {"A", "B"}

AddContactArgs ==
    {<<n, p>> : n \in BotNames, p \in PhoneInputs}
        \cup {<<n, p, b>> : n \in BotNames, p \in PhoneInputs,
                            b \in BirthdayTexts}

AddContact(args) ==
    /\ LET found == find(contacts, args[1])
       IN  IF found = None THEN Len(contacts) < MaxRecords
           ELSE Len(found.phones) < MaxPhones
    /\ LET r == add_contact(contacts, args)
       IN  contacts' = r.self /\ outcome' = r.out
    /\ call' = [op |-> "add_contact", args |-> [args |-> args]]
    /\ UNCHANGED <<s, phone, rec>>

NextBot == \E args \in AddContactArgs : AddContact(args)

SpecBot == Init /\ [][NextBot]_vars

\* C10: add_contact on a name already in the collection changes that
\* contact's stored birthday only when a birthday argument is supplied and
\* the command succeeds.
C10_AddContactKeepsBirthday ==
    [][(call'.op = "add_contact" /\ call'.args.args[1] \in Keys(contacts)) =>
        LET name == call'.args.args[1]
            before == Get(contacts, name).birthday.Birthday__value
            after == Get(contacts', name).birthday.Birthday__value
        IN  after # before =>
               (Len(call'.args.args) > 2 /\ outcome'.exc = "None")]_vars

====
